---- MODULE Spec2Model ----
(***************************************************************************)
(* The asynchronous task bridge of rotki-sync (package async):            *)
(* TaskManager (RegisterTask, pollTasks, checkTasks, fetchTaskResult,     *)
(* Stop) and the facade ExecuteAsync / waitForTaskResult, run by several  *)
(* calling goroutines against the remote task service.                    *)
(*                                                                         *)
(* Every critical section of tm.mu is one atomic step; everything a       *)
(* goroutine does between two accesses to shared state belongs to the     *)
(* step of the earlier access.  Identities created by a RegisterTask call *)
(* (the result channel, and, when it starts polling, the stop channel and *)
(* the pollTasks goroutine) are named after the calling goroutine, which  *)
(* makes at most one call: channel c, stop channel c, poller c.  A panic  *)
(* (send on or close of a closed channel) ends the process.               *)
(***************************************************************************)
EXTENDS Integers, Sequences, FiniteSets, TLC

\* Number of goroutines that call ExecuteAsync (one call each).
NumCallers == 2

Callers == 1 .. NumCallers
\* A pollTasks goroutine is started by a RegisterTask call: poller c by caller c.
Pollers == Callers
\* make(chan APIResponse, 1) in RegisterTask of caller c is channel c.
Chans == Callers
\* Stop channel 0 is made by NewTaskManager, stop channel c by caller c's RegisterTask.
StopChans == 0 .. NumCallers
\* The task id the remote service answers caller c's submission with.
TaskOf(c) == 100 + c
Tasks == {TaskOf(c) : c \in Callers}
\* The zero TaskID, and the nil channel.
NoTask == 0
NoChan == 0
\* A poller that is not inside its select waits on no stop channel.
NoSel == -1

VARIABLES
  activeTasks,    \* tm.activeTasks: map TaskID -> result channel
  pollingActive,  \* tm.pollingActive
  stopPolling,    \* tm.stopPolling: the stop channel the field refers to
  stopClosed,     \* per stop channel: has it been closed
  chBuf,          \* per result channel: its buffer (capacity 1)
  chClosed,       \* per result channel: has it been closed
  ppc,            \* per poller: position in pollTasks/checkTasks/fetchTaskResult
  sel,            \* per poller: stop channel its current select waits on
  todo,           \* per poller: completed ids of tasksResponse still to range over
  cur,            \* per poller: taskID argument of fetchTaskResult
  rch,            \* per poller: resultChan argument of fetchTaskResult
  fres,           \* per poller: outcome of client.Get("/tasks/<id>")
  cpc,            \* per caller: position in ExecuteAsync/waitForTaskResult
  tid,            \* per caller: asyncResponse.Result.TaskID
  raw,            \* per caller: rawResult received from its channel
  ret,            \* per caller: what ExecuteAsync returned
  svc,            \* remote service: status of each task id
  panicked,       \* the process died of a runtime panic
  sends,          \* history: send statements executed per result channel
  method,         \* ExecuteAsync argument: the HTTP method
  endpoint,       \* ExecuteAsync argument: the endpoint
  body,           \* ExecuteAsync argument: the body
  rpc,            \* position of the ExecuteAsync call whose request is followed
  sent,           \* the requests handed to the transport: <<method, endpoint, body>>
  rerr,           \* the error that call returned before any submission
  mu,             \* tm.mu: the goroutine holding it for writing, those holding it for reading
  lpc,            \* per goroutine using tm.mu: the function it runs and its next statement
  pu,             \* the call of UserService.ProcessUsers
  pud,            \* the call of SyncService.ProcessUserData
  snap            \* the call of BlockchainService.PerformSnapshotIfNeeded

tmVars == <<activeTasks, pollingActive, stopPolling, stopClosed>>
chVars == <<chBuf, chClosed, sends>>
pollerVars == <<ppc, sel, todo, cur, rch, fres>>
callerVars == <<cpc, tid, raw, ret>>
reqVars == <<method, endpoint, body, rpc, sent, rerr>>
lockVars == <<mu, lpc>>
callVars == <<pu, pud, snap>>
bridgeVars == <<tmVars, chVars, pollerVars, callerVars, svc, panicked>>
vars == <<activeTasks, pollingActive, stopPolling, stopClosed, chBuf, chClosed,
          ppc, sel, todo, cur, rch, fres, cpc, tid, raw, ret, svc, panicked,
          sends, method, endpoint, body, rpc, sent, rerr, mu, lpc, pu, pud, snap>>

(***************************************************************************)
(* Data: models.TaskStatus, models.TaskResult, models.APIResponse          *)
(***************************************************************************)
TaskStatusPending == "pending"
TaskStatusCompleted == "completed"
TaskStatusNotFound == "not-found"

\* fmt.Sprintf("%d", taskID)
Itoa(n) == CASE n = 101 -> "101" [] n = 102 -> "102" [] n = 103 -> "103"
             [] OTHER -> "0"

\* Raw JSON documents a task outcome may hold (json.RawMessage).
JsonGood == "{\"result\":true}"
JsonBadShape == "{\"result\":\"x\"}"
JsonNull == "null"
NoBytes == ""

\* A message is the sequence of the pieces Sprintf joins; <<>> is "".
NoMessage == <<>>
TransportError == "connection refused"

\* The zero models.APIResponse[json.RawMessage].
ZeroEnvelope == [Result |-> NoBytes, Message |-> NoMessage]

\* What client.Get("/tasks/<id>", &taskResult) can leave behind: an error, or
\* a decoded APIResponse[TaskResult].
FetchResults ==
  { [err |-> TRUE, status |-> "", outcome |-> NoBytes, message |-> NoMessage] } \cup
  { [err |-> FALSE, status |-> TaskStatusCompleted, outcome |-> JsonGood, message |-> <<"warning">>],
    [err |-> FALSE, status |-> TaskStatusCompleted, outcome |-> JsonBadShape, message |-> NoMessage],
    [err |-> FALSE, status |-> TaskStatusPending, outcome |-> JsonNull, message |-> NoMessage],
    [err |-> FALSE, status |-> TaskStatusNotFound, outcome |-> JsonNull, message |-> <<"No task found">>] }

NoFetch == [err |-> FALSE, status |-> "", outcome |-> NoBytes, message |-> NoMessage]

\* The envelope fetchTaskResult sends for a fetch outcome (the three branches).
Envelope(taskID, r) ==
  IF r.err
    THEN [Result |-> NoBytes,
          Message |-> <<"Failed to fetch task result: ", TransportError>>]
    ELSE IF r.status = TaskStatusNotFound
      THEN [Result |-> NoBytes, Message |-> <<"Task ", Itoa(taskID), " not found">>]
      ELSE [Result |-> r.outcome, Message |-> r.message]

\* Mutant of Unmarshal: empty input decodes like null, without an error.
Unmarshal_EmptyIsNull(bytes) ==
  CASE bytes = NoBytes -> [ok |-> TRUE, value |-> "zero", err |-> ""]
    [] bytes = JsonNull -> [ok |-> TRUE, value |-> "zero", err |-> ""]
    [] bytes = JsonGood -> [ok |-> TRUE, value |-> "true", err |-> ""]
    [] OTHER -> [ok |-> FALSE, value |-> "nil",
                 err |-> "json: cannot unmarshal string into Go struct field of type bool"]

\* json.Unmarshal(rawResult.Result, &finalResponse) for the caller's shape T = bool.
Unmarshal(bytes) ==
  CASE bytes = NoBytes -> [ok |-> FALSE, value |-> "nil", err |-> "unexpected end of JSON input"]
    [] bytes = JsonNull -> [ok |-> TRUE, value |-> "zero", err |-> ""]
    [] bytes = JsonGood -> [ok |-> TRUE, value |-> "true", err |-> ""]
    [] OTHER -> [ok |-> FALSE, value |-> "nil",
                 err |-> "json: cannot unmarshal string into Go struct field of type bool"]

NoReturn == [resp |-> "none", err |-> <<>>]

\* waitForTaskResult after the receive: decode, wrap a decode error.
DecodeResult(rawResult) ==
  LET u == Unmarshal(rawResult.Result)
  IN IF u.ok THEN [resp |-> u.value, err |-> <<>>]
             ELSE [resp |-> "nil", err |-> <<"failed to unmarshal task result: ", u.err>>]

\* ExecuteAsync when the submission fails.
InitiateError == [resp |-> "nil", err |-> <<"failed to initiate async request: ", TransportError>>]

(***************************************************************************)
(* Data: the arguments of ExecuteAsync and their JSON encoding             *)
(***************************************************************************)
\* An endpoint is the sequence of its pieces; the separators "?" and "&" are
\* pieces of their own, so the last byte is '?' iff the last piece is "?".
Endpoints ==
  { << >>,
    <<"/balances">>,
    <<"/balances", "?">>,
    <<"/balances", "?", "save_data=true">>,
    <<"/history/events", "?", "limit=1", "&", "offset=0">> }

Methods == {"GET", "POST", "PUT", "PATCH", "DELETE"}
WriteMethods == {"POST", "PUT", "PATCH"}

\* A Go int64 n = hi * 2^30 + lo with 0 <= lo < 2^30.
Base == 1073741824
\* hi of 2^53, from where on a float64 no longer holds every integer.
Float64ExactHi == 8388608

GoInt(hi, lo) == [k |-> "int", hi |-> hi, lo |-> lo]
GoString(str) == [k |-> "string", s |-> str]
GoBool(b) == [k |-> "bool", b |-> b]

\* Values a flat body holds: a string, a bool, 1, the timestamp 1700000000 and
\* 2^53 + 1.
BodyValues ==
  { GoString("kraken"), GoBool(FALSE), GoInt(0, 1), GoInt(1, 626258176),
    GoInt(Float64ExactHi, 1) }

BodyKeys == {"location", "async_query"}

\* The untyped nil interface (no body), a typed nil (nil map, nil slice, nil
\* pointer), a map or struct, a non-nil slice, a string, an int, a channel.
NilBody == [k |-> "nil"]
TypedNilBody == [k |-> "typednil"]
MapBody(m) == [k |-> "map", m |-> m]
ObjectBodies ==
  { MapBody(m) : m \in UNION { [K -> BodyValues] : K \in SUBSET BodyKeys } }
Bodies ==
  {NilBody, TypedNilBody, [k |-> "slice"], [k |-> "chan"], GoString("x"), GoInt(0, 7)}
    \cup ObjectBodies

\* float64(n) for 0 <= n < 2^54: exact below 2^53, then the nearest even
\* integer, a tie going to the even mantissa.
Float64OfInt(hi, lo) ==
  IF hi < Float64ExactHi \/ lo % 2 = 0
    THEN [k |-> "float64", hi |-> hi, lo |-> lo]
    ELSE IF ((lo - 1) \div 2) % 2 = 0
      THEN [k |-> "float64", hi |-> hi, lo |-> lo - 1]
      ELSE IF lo + 1 = Base
        THEN [k |-> "float64", hi |-> hi + 1, lo |-> 0]
        ELSE [k |-> "float64", hi |-> hi, lo |-> lo + 1]

\* json.Marshal of a value held by a map: the JSON value it writes.
MarshalValue(v) ==
  CASE v.k = "string" -> [k |-> "string", s |-> v.s]
    [] v.k = "bool" -> [k |-> "bool", b |-> v.b]
    [] v.k = "int" -> [k |-> "number", hi |-> v.hi, lo |-> v.lo]
    [] v.k = "float64" -> [k |-> "number", hi |-> v.hi, lo |-> v.lo]

\* json.Marshal(body): the JSON document, or an error for a type JSON has no
\* encoding of.
Marshal(v) ==
  CASE v.k = "chan" -> [ok |-> FALSE, doc |-> [k |-> "none"],
                        err |-> "json: unsupported type: chan int"]
    [] v.k = "typednil" -> [ok |-> TRUE, doc |-> [k |-> "null"], err |-> ""]
    [] v.k = "slice" -> [ok |-> TRUE, doc |-> [k |-> "array"], err |-> ""]
    [] v.k = "map" ->
         [ok |-> TRUE,
          doc |-> [k |-> "object", m |-> [key \in DOMAIN v.m |-> MarshalValue(v.m[key])]],
          err |-> ""]
    [] OTHER -> [ok |-> TRUE, doc |-> MarshalValue(v), err |-> ""]

\* json.Unmarshal into an interface{} held by the map: a number becomes a
\* float64.
UnmarshalValue(j) ==
  CASE j.k = "string" -> GoString(j.s)
    [] j.k = "bool" -> GoBool(j.b)
    [] j.k = "number" -> Float64OfInt(j.hi, j.lo)

\* json.Unmarshal(bodyBytes, &requestBody) for a nil map[string]interface{}:
\* an object fills a new map, null leaves the map nil, anything else is an
\* error.
UnmarshalMap(doc) ==
  CASE doc.k = "object" ->
         [ok |-> TRUE, isNil |-> FALSE,
          m |-> [key \in DOMAIN doc.m |-> UnmarshalValue(doc.m[key])], err |-> ""]
    [] doc.k = "null" -> [ok |-> TRUE, isNil |-> TRUE, m |-> << >>, err |-> ""]
    [] OTHER ->
         [ok |-> FALSE, isNil |-> TRUE, m |-> << >>,
          err |-> "json: cannot unmarshal into Go value of type map[string]interface {}"]

NoRequestBody == [k |-> "none"]

(***************************************************************************)
(* tm.mu and the statements of TaskManager that run between its calls      *)
(***************************************************************************)
\* Number of goroutines that run functions of TaskManager at the same time.
NumLockUsers == 3
LockUsers == 1 .. NumLockUsers

\* Nobody holds tm.mu for writing.
NoHolder == 0

\* One statement: a call on tm.mu, or a read or a write of a field.
St(op, on) == [op |-> op, on |-> on]

\* Mutant of CriticalSections: fetchTaskResult deletes the entry under the
\* read lock.
CriticalSections_DeleteUnderRLock ==
  [fn \in {"RegisterTask", "pollTasks", "checkTasks.len", "checkTasks.range",
           "fetchTaskResult", "Stop"} |->
     CASE fn = "RegisterTask" ->
            <<St("Lock", "mu"), St("write", "activeTasks"), St("read", "pollingActive"),
              St("write", "pollingActive"), St("Unlock", "mu")>>
       [] fn = "pollTasks" ->
            <<St("Lock", "mu"), St("write", "pollingActive"), St("Unlock", "mu")>>
       [] fn = "checkTasks.len" ->
            <<St("RLock", "mu"), St("read", "activeTasks"), St("RUnlock", "mu")>>
       [] fn = "checkTasks.range" ->
            <<St("RLock", "mu"), St("read", "activeTasks"), St("RUnlock", "mu")>>
       [] fn = "fetchTaskResult" ->
            <<St("RLock", "mu"), St("write", "activeTasks"), St("RUnlock", "mu")>>
       [] fn = "Stop" ->
            <<St("Lock", "mu"), St("read", "pollingActive"), St("write", "pollingActive"),
              St("Unlock", "mu")>>]

\* The statements of each function of TaskManager from its call on tm.mu to
\* the matching release, in the order they execute: RegisterTask 35-44 (the
\* branch of a cleared flag), pollTasks 57-59, checkTasks 68-74 and 83-85,
\* fetchTaskResult 118-120, Stop 126-133 (the branch of a set flag; the
\* deferred Unlock runs last).
CriticalSections ==
  [fn \in {"RegisterTask", "pollTasks", "checkTasks.len", "checkTasks.range",
           "fetchTaskResult", "Stop"} |->
     CASE fn = "RegisterTask" ->
            <<St("Lock", "mu"), St("write", "activeTasks"), St("read", "pollingActive"),
              St("write", "pollingActive"), St("Unlock", "mu")>>
       [] fn = "pollTasks" ->
            <<St("Lock", "mu"), St("write", "pollingActive"), St("Unlock", "mu")>>
       [] fn = "checkTasks.len" ->
            <<St("RLock", "mu"), St("read", "activeTasks"), St("RUnlock", "mu")>>
       [] fn = "checkTasks.range" ->
            <<St("RLock", "mu"), St("read", "activeTasks"), St("RUnlock", "mu")>>
       [] fn = "fetchTaskResult" ->
            <<St("Lock", "mu"), St("write", "activeTasks"), St("Unlock", "mu")>>
       [] fn = "Stop" ->
            <<St("Lock", "mu"), St("read", "pollingActive"), St("write", "pollingActive"),
              St("Unlock", "mu")>>]

\* A goroutine outside every critical section.
Outside == [fn |-> "none", at |-> 0]

(***************************************************************************)
(* Callers of the bridge: UserService, SyncService, BlockchainService      *)
(***************************************************************************)
\* models.UserStatus.
StatusLoggedIn == "loggedin"
StatusLoggedOut == "loggedout"

\* Number of users the service knows.
NumUsers == 2
Usernames == 1 .. NumUsers
NoUser == 0

\* ProcessUsers has not been called.
NoProcessUsers ==
  [pc |-> "off", getOk |-> TRUE, result |-> << >>, loginOk |-> << >>,
   processOk |-> << >>, loggedInUsers |-> {}, rest |-> {}, username |-> NoUser,
   log |-> << >>, err |-> << >>]

\* The five calls of ProcessUserData, in source order.
Stages ==
  <<"PerformSnapshotIfNeeded", "GetExchangeTrades", "FetchOnlineEvents",
    "FetchEvmTransactions", "DecodeEvmTransactions">>
StageNames == {Stages[i] : i \in DOMAIN Stages}

\* ProcessUserData has not been called.
NoProcessUserData ==
  [pc |-> "off", failing |-> {}, log |-> << >>, logged |-> << >>, err |-> << >>]

\* Hours to seconds.
SecondsPerHour == 3600
\* Largest balance_save_frequency setting, in hours.
MaxFrequency == 2

\* PerformSnapshotIfNeeded has not been called.
NoSnapshot ==
  [pc |-> "off", lastOk |-> TRUE, frequencyOk |-> TRUE, takeOk |-> TRUE,
   lastBalanceSave |-> 0, balanceSaveFrequency |-> 0, currentTime |-> 0,
   requests |-> << >>, err |-> << >>]

\* No goroutine is inside TaskManager and no service call is under way.
InitIdle ==
  /\ mu = [w |-> NoHolder, r |-> {}]
  /\ lpc = [g \in LockUsers |-> Outside]
  /\ pu = NoProcessUsers
  /\ pud = NoProcessUserData
  /\ snap = NoSnapshot

(***************************************************************************)
(* State after NewTaskManager, before any call                             *)
(***************************************************************************)
InitBridge ==
  /\ activeTasks = << >>
  /\ pollingActive = FALSE
  /\ stopPolling = 0
  /\ stopClosed = [s \in StopChans |-> FALSE]
  /\ chBuf = [ch \in Chans |-> << >>]
  /\ chClosed = [ch \in Chans |-> FALSE]
  /\ ppc = [p \in Pollers |-> "none"]
  /\ sel = [p \in Pollers |-> NoSel]
  /\ todo = [p \in Pollers |-> {}]
  /\ cur = [p \in Pollers |-> NoTask]
  /\ rch = [p \in Pollers |-> NoChan]
  /\ fres = [p \in Pollers |-> NoFetch]
  /\ cpc = [c \in Callers |-> "idle"]
  /\ tid = [c \in Callers |-> NoTask]
  /\ raw = [c \in Callers |-> ZeroEnvelope]
  /\ ret = [c \in Callers |-> NoReturn]
  /\ svc = [t \in Tasks |-> "none"]
  /\ panicked = FALSE
  /\ sends = [ch \in Chans |-> 0]

\* The bridge with the requests of its callers left out of the picture.
Init ==
  /\ InitBridge
  /\ method = "GET"
  /\ endpoint = << >>
  /\ body = NilBody
  /\ rpc = "off"
  /\ sent = << >>
  /\ rerr = << >>
  /\ InitIdle

\* One ExecuteAsync call about to be made, with any method, endpoint and body.
InitRequest ==
  /\ InitBridge
  /\ method \in Methods
  /\ endpoint \in Endpoints
  /\ body \in Bodies
  /\ rpc = "call"
  /\ sent = << >>
  /\ rerr = << >>
  /\ InitIdle

(***************************************************************************)
(* TaskManager                                                             *)
(***************************************************************************)
\* The map after tm.activeTasks[taskID] = resultChan.
MapPut(m, taskID, ch) ==
  [t \in DOMAIN m \cup {taskID} |-> IF t = taskID THEN ch ELSE m[t]]

\* The map after delete(tm.activeTasks, taskID).
MapDelete(m, taskID) == [t \in DOMAIN m \ {taskID} |-> m[t]]

\* Mutant of RegisterTask: the pollingActive check is missing, every
\* registration starts a poll activity.
RegisterTask_AlwaysStart(c, taskID) ==
  /\ activeTasks' = MapPut(activeTasks, taskID, c)
  /\ pollingActive' = TRUE
  /\ stopPolling' = c
  /\ ppc' = [ppc EXCEPT ![c] = "select"]
  /\ UNCHANGED <<stopClosed, panicked>>

\* Mutant of RegisterTask: polling is restarted on the stop channel the
\* field already holds, no new one is made.
RegisterTask_KeepChannel(c, taskID) ==
  /\ activeTasks' = MapPut(activeTasks, taskID, c)
  /\ IF ~pollingActive
       THEN /\ pollingActive' = TRUE
            /\ ppc' = [ppc EXCEPT ![c] = "select"]
            /\ UNCHANGED stopPolling
       ELSE UNCHANGED <<pollingActive, stopPolling, ppc>>
  /\ UNCHANGED <<stopClosed, panicked>>

\* RegisterTask(taskID) called by goroutine c: the whole critical section.
RegisterTask(c, taskID) ==
  /\ activeTasks' = MapPut(activeTasks, taskID, c)
  /\ IF ~pollingActive
       THEN /\ pollingActive' = TRUE
            /\ stopPolling' = c
            /\ ppc' = [ppc EXCEPT ![c] = "select"]
       ELSE UNCHANGED <<pollingActive, stopPolling, ppc>>
  /\ UNCHANGED <<stopClosed, panicked>>

\* Mutant of Stop: the pollingActive check is missing.
Stop_Unguarded ==
  IF stopClosed[stopPolling]
    THEN panicked' = TRUE /\ UNCHANGED <<stopClosed, pollingActive>>
    ELSE /\ stopClosed' = [stopClosed EXCEPT ![stopPolling] = TRUE]
         /\ pollingActive' = FALSE
         /\ UNCHANGED panicked

\* Stop(): the whole critical section. close of a closed channel panics.
Stop ==
  IF pollingActive
    THEN /\ IF stopClosed[stopPolling]
              THEN panicked' = TRUE /\ UNCHANGED <<stopClosed, pollingActive>>
              ELSE /\ stopClosed' = [stopClosed EXCEPT ![stopPolling] = TRUE]
                   /\ pollingActive' = FALSE
                   /\ UNCHANGED panicked
    ELSE UNCHANGED <<stopClosed, pollingActive, panicked>>

\* Mutant of ExternalStop: stopping also drops the pending entries.
ExternalStop_DropsPending ==
  /\ ~panicked
  /\ UNCHANGED <<reqVars, lockVars, callVars>>
  /\ Stop
  /\ activeTasks' = << >>
  /\ UNCHANGED <<stopPolling, chVars, pollerVars, callerVars, svc>>

\* Stop() called from outside the poller (SyncService.Cleanup).
ExternalStop ==
  /\ ~panicked
  /\ UNCHANGED <<reqVars, lockVars, callVars>>
  /\ Stop
  /\ UNCHANGED <<activeTasks, stopPolling, chVars, pollerVars, callerVars, svc>>

\* pollTasks: entering the select evaluates tm.stopPolling (without the lock).
PollSelect(p) ==
  /\ ~panicked
  /\ UNCHANGED <<reqVars, lockVars, callVars>>
  /\ ppc[p] = "select"
  /\ sel' = [sel EXCEPT ![p] = stopPolling]
  /\ ppc' = [ppc EXCEPT ![p] = "wait"]
  /\ UNCHANGED <<tmVars, chVars, todo, cur, rch, fres, callerVars, svc, panicked>>

\* pollTasks: case <-tm.stopPolling.
PollExit(p) ==
  /\ ~panicked
  /\ UNCHANGED <<reqVars, lockVars, callVars>>
  /\ ppc[p] = "wait"
  /\ stopClosed[sel[p]]
  /\ pollingActive' = FALSE
  /\ ppc' = [ppc EXCEPT ![p] = "dead"]
  /\ sel' = [sel EXCEPT ![p] = NoSel]
  /\ UNCHANGED <<activeTasks, stopPolling, stopClosed, chVars, todo, cur, rch, fres,
                 callerVars, svc, panicked>>

\* pollTasks: case <-ticker.C, and the first critical section of checkTasks.
PollTick(p) ==
  /\ ~panicked
  /\ UNCHANGED <<reqVars, lockVars, callVars>>
  /\ ppc[p] = "wait"
  /\ IF DOMAIN activeTasks = {}
       THEN ppc' = [ppc EXCEPT ![p] = "stop"]
       ELSE ppc' = [ppc EXCEPT ![p] = "list"]
  /\ sel' = [sel EXCEPT ![p] = NoSel]
  /\ UNCHANGED <<tmVars, chVars, todo, cur, rch, fres, callerVars, svc, panicked>>

\* checkTasks: tm.Stop() on an empty registry, then return to the loop.
PollSelfStop(p) ==
  /\ ~panicked
  /\ UNCHANGED <<reqVars, lockVars, callVars>>
  /\ ppc[p] = "stop"
  /\ Stop
  /\ ppc' = [ppc EXCEPT ![p] = "select"]
  /\ UNCHANGED <<activeTasks, stopPolling, chVars, sel, todo, cur, rch, fres,
                 callerVars, svc>>

\* The completed list the service reports.
\* Mutant of CompletedList: checkTasks ranges over Result.Pending, the tasks
\* still in flight, and so never sees a task that was completed before its
\* first tick.
CompletedList_StillInFlight == {t \in Tasks : svc[t] = TaskStatusPending}

CompletedList == {t \in Tasks : svc[t] = TaskStatusCompleted}

\* Where checkTasks continues once `left` ids remain to range over.
AfterRange(left) == IF left = {} THEN "select" ELSE "loop"

\* Mutant of PollList: a failed poll-list request ends the poll activity.
PollList_FailFatal(p) ==
  /\ ~panicked
  /\ UNCHANGED <<reqVars, lockVars, callVars>>
  /\ ppc[p] = "list"
  /\ \/ /\ ppc' = [ppc EXCEPT ![p] = "dead"]
        /\ UNCHANGED todo
     \/ /\ todo' = [todo EXCEPT ![p] = CompletedList]
        /\ ppc' = [ppc EXCEPT ![p] = AfterRange(CompletedList)]
  /\ UNCHANGED <<tmVars, chVars, sel, cur, rch, fres, callerVars, svc, panicked>>

\* Mutant of PollList: a failed poll-list request makes the poller request
\* its own termination.
PollList_FailStops(p) ==
  /\ ~panicked
  /\ UNCHANGED <<reqVars, lockVars, callVars>>
  /\ ppc[p] = "list"
  /\ \/ /\ ppc' = [ppc EXCEPT ![p] = "stop"]
        /\ UNCHANGED todo
     \/ /\ todo' = [todo EXCEPT ![p] = CompletedList]
        /\ ppc' = [ppc EXCEPT ![p] = AfterRange(CompletedList)]
  /\ UNCHANGED <<tmVars, chVars, sel, cur, rch, fres, callerVars, svc, panicked>>

\* checkTasks: client.Get("/tasks") fails, or yields the completed list.
PollList(p) ==
  /\ ~panicked
  /\ UNCHANGED <<reqVars, lockVars, callVars>>
  /\ ppc[p] = "list"
  /\ \/ /\ ppc' = [ppc EXCEPT ![p] = "select"]
        /\ UNCHANGED todo
     \/ /\ todo' = [todo EXCEPT ![p] = CompletedList]
        /\ ppc' = [ppc EXCEPT ![p] = AfterRange(CompletedList)]
  /\ UNCHANGED <<tmVars, chVars, sel, cur, rch, fres, callerVars, svc, panicked>>

\* Mutant of PollLookup: the slot handed to fetchTaskResult is any slot of
\* the map, not the one registered for the task id.
PollLookup_AnySlot(p) ==
  /\ ~panicked
  /\ UNCHANGED <<reqVars, lockVars, callVars>>
  /\ ppc[p] = "loop"
  /\ \E t \in todo[p] :
       /\ todo' = [todo EXCEPT ![p] = @ \ {t}]
       /\ IF t \in DOMAIN activeTasks
            THEN /\ cur' = [cur EXCEPT ![p] = t]
                 /\ \E u \in DOMAIN activeTasks : rch' = [rch EXCEPT ![p] = activeTasks[u]]
                 /\ ppc' = [ppc EXCEPT ![p] = "fetch"]
            ELSE /\ ppc' = [ppc EXCEPT ![p] = AfterRange(todo[p] \ {t})]
                 /\ UNCHANGED <<cur, rch>>
  /\ UNCHANGED <<tmVars, chVars, sel, fres, callerVars, svc, panicked>>

\* Mutant of PollLookup: a completed id without a pending entry makes the
\* poller request its own termination.
PollLookup_UnmatchedStops(p) ==
  /\ ~panicked
  /\ UNCHANGED <<reqVars, lockVars, callVars>>
  /\ ppc[p] = "loop"
  /\ \E t \in todo[p] :
       /\ todo' = [todo EXCEPT ![p] = @ \ {t}]
       /\ IF t \in DOMAIN activeTasks
            THEN /\ cur' = [cur EXCEPT ![p] = t]
                 /\ rch' = [rch EXCEPT ![p] = activeTasks[t]]
                 /\ ppc' = [ppc EXCEPT ![p] = "fetch"]
            ELSE /\ ppc' = [ppc EXCEPT ![p] = "stop"]
                 /\ UNCHANGED <<cur, rch>>
  /\ UNCHANGED <<tmVars, chVars, sel, fres, callerVars, svc, panicked>>

\* checkTasks: one iteration of the range: the lookup under the read lock.
PollLookup(p) ==
  /\ ~panicked
  /\ UNCHANGED <<reqVars, lockVars, callVars>>
  /\ ppc[p] = "loop"
  /\ \E t \in todo[p] :
       /\ todo' = [todo EXCEPT ![p] = @ \ {t}]
       /\ IF t \in DOMAIN activeTasks
            THEN /\ cur' = [cur EXCEPT ![p] = t]
                 /\ rch' = [rch EXCEPT ![p] = activeTasks[t]]
                 /\ ppc' = [ppc EXCEPT ![p] = "fetch"]
            ELSE /\ ppc' = [ppc EXCEPT ![p] = AfterRange(todo[p] \ {t})]
                 /\ UNCHANGED <<cur, rch>>
  /\ UNCHANGED <<tmVars, chVars, sel, fres, callerVars, svc, panicked>>

\* fetchTaskResult: client.Get("/tasks/<id>", &taskResult).
PollFetch(p) ==
  /\ ~panicked
  /\ UNCHANGED <<reqVars, lockVars, callVars>>
  /\ ppc[p] = "fetch"
  /\ \E r \in FetchResults : fres' = [fres EXCEPT ![p] = r]
  /\ ppc' = [ppc EXCEPT ![p] = "send"]
  /\ UNCHANGED <<tmVars, chVars, sel, todo, cur, rch, callerVars, svc, panicked>>

\* resultChan <- envelope: panics on a closed channel, blocks on a full buffer.
ChanSend(p, ch, env) ==
  IF chClosed[ch]
    THEN /\ panicked' = TRUE
         /\ sends' = [sends EXCEPT ![ch] = @ + 1]
         /\ UNCHANGED <<chBuf, ppc>>
    ELSE /\ Len(chBuf[ch]) < 1
         /\ chBuf' = [chBuf EXCEPT ![ch] = Append(@, env)]
         /\ sends' = [sends EXCEPT ![ch] = @ + 1]
         /\ ppc' = [ppc EXCEPT ![p] = "close"]
         /\ UNCHANGED panicked

\* fetchTaskResult: the send of the branch's envelope.
PollSend(p) ==
  /\ ~panicked
  /\ UNCHANGED <<reqVars, lockVars, callVars>>
  /\ ppc[p] = "send"
  /\ ChanSend(p, rch[p], Envelope(cur[p], fres[p]))
  /\ fres' = [fres EXCEPT ![p] = NoFetch]
  /\ UNCHANGED <<tmVars, chClosed, sel, todo, cur, rch, callerVars, svc>>

\* fetchTaskResult: close(resultChan); close of a closed channel panics.
PollClose(p) ==
  /\ ~panicked
  /\ UNCHANGED <<reqVars, lockVars, callVars>>
  /\ ppc[p] = "close"
  /\ IF chClosed[rch[p]]
       THEN panicked' = TRUE /\ UNCHANGED <<chClosed, ppc>>
       ELSE /\ chClosed' = [chClosed EXCEPT ![rch[p]] = TRUE]
            /\ ppc' = [ppc EXCEPT ![p] = "delete"]
            /\ UNCHANGED panicked
  /\ UNCHANGED <<tmVars, chBuf, sends, sel, todo, cur, rch, fres, callerVars, svc>>

\* fetchTaskResult: delete(tm.activeTasks, taskID) under the lock, and return.
PollDelete(p) ==
  /\ ~panicked
  /\ UNCHANGED <<reqVars, lockVars, callVars>>
  /\ ppc[p] = "delete"
  /\ activeTasks' = MapDelete(activeTasks, cur[p])
  /\ ppc' = [ppc EXCEPT ![p] = AfterRange(todo[p])]
  /\ cur' = [cur EXCEPT ![p] = NoTask]
  /\ rch' = [rch EXCEPT ![p] = NoChan]
  /\ UNCHANGED <<pollingActive, stopPolling, stopClosed, chVars, sel, todo, fres,
                 callerVars, svc, panicked>>

(***************************************************************************)
(* ExecuteAsync / waitForTaskResult                                        *)
(***************************************************************************)
\* Mutant of SubmitFail: the error is reported but the zero task id of the
\* empty response is registered all the same.
SubmitFail_ThenRegister(c) ==
  /\ ~panicked
  /\ UNCHANGED <<reqVars, lockVars, callVars>>
  /\ cpc[c] = "idle"
  /\ cpc' = [cpc EXCEPT ![c] = "returned"]
  /\ ret' = [ret EXCEPT ![c] = InitiateError]
  /\ activeTasks' = [t \in DOMAIN activeTasks \cup {NoTask} |->
                       IF t = NoTask THEN c ELSE activeTasks[t]]
  /\ IF ~pollingActive
       THEN /\ pollingActive' = TRUE
            /\ stopPolling' = c
            /\ ppc' = [ppc EXCEPT ![c] = "select"]
       ELSE UNCHANGED <<pollingActive, stopPolling, ppc>>
  /\ UNCHANGED <<stopClosed, chVars, sel, todo, cur, rch, fres, tid, raw, svc, panicked>>

\* ExecuteAsync: the submission fails at the transport level.
SubmitFail(c) ==
  /\ ~panicked
  /\ UNCHANGED <<reqVars, lockVars, callVars>>
  /\ cpc[c] = "idle"
  /\ cpc' = [cpc EXCEPT ![c] = "returned"]
  /\ ret' = [ret EXCEPT ![c] = InitiateError]
  /\ UNCHANGED <<tmVars, chVars, pollerVars, tid, raw, svc, panicked>>

\* ExecuteAsync: the submission succeeds; the service answers with a task id
\* that is not outstanding and starts the task.
SubmitOk(c) ==
  /\ ~panicked
  /\ UNCHANGED <<reqVars, lockVars, callVars>>
  /\ cpc[c] = "idle"
  /\ svc[TaskOf(c)] = "none"
  /\ svc' = [svc EXCEPT ![TaskOf(c)] = TaskStatusPending]
  /\ tid' = [tid EXCEPT ![c] = TaskOf(c)]
  /\ cpc' = [cpc EXCEPT ![c] = "register"]
  /\ UNCHANGED <<tmVars, chVars, pollerVars, raw, ret, panicked>>

\* waitForTaskResult: tm.RegisterTask(taskID).
Register(c) ==
  /\ ~panicked
  /\ UNCHANGED <<reqVars, lockVars, callVars>>
  /\ cpc[c] = "register"
  /\ RegisterTask(c, tid[c])
  /\ cpc' = [cpc EXCEPT ![c] = "wait"]
  /\ UNCHANGED <<chVars, sel, todo, cur, rch, fres, tid, raw, ret, svc>>

\* Mutant of ChanRecvReady: the receive does not block (a select with a
\* default case).
ChanRecvReady_NonBlocking(ch) == TRUE

\* rawResult := <-resultChan: a buffered value, or the zero value of a closed
\* and drained channel.
ChanRecvReady(ch) == chBuf[ch] # << >> \/ chClosed[ch]
ChanRecvValue(ch) == IF chBuf[ch] # << >> THEN Head(chBuf[ch]) ELSE ZeroEnvelope

\* Mutant of Receive: the call receives in a loop, it takes the value and
\* waits for another one.
Receive_Again(c) ==
  /\ ~panicked
  /\ UNCHANGED <<reqVars, lockVars, callVars>>
  /\ cpc[c] = "wait"
  /\ ChanRecvReady(c)
  /\ raw' = [raw EXCEPT ![c] = ChanRecvValue(c)]
  /\ ret' = [ret EXCEPT ![c] = DecodeResult(ChanRecvValue(c))]
  /\ chBuf' = [chBuf EXCEPT ![c] = IF @ # << >> THEN Tail(@) ELSE @]
  /\ cpc' = [cpc EXCEPT ![c] = IF chClosed[c] /\ chBuf[c] = << >> THEN "returned" ELSE "wait"]
  /\ UNCHANGED <<tmVars, chClosed, sends, pollerVars, tid, svc, panicked>>

\* waitForTaskResult: the receive, the decode and the return.
Receive(c) ==
  /\ ~panicked
  /\ UNCHANGED <<reqVars, lockVars, callVars>>
  /\ cpc[c] = "wait"
  /\ ChanRecvReady(c)
  /\ raw' = [raw EXCEPT ![c] = ChanRecvValue(c)]
  /\ ret' = [ret EXCEPT ![c] = DecodeResult(ChanRecvValue(c))]
  /\ chBuf' = [chBuf EXCEPT ![c] = IF @ # << >> THEN Tail(@) ELSE @]
  /\ cpc' = [cpc EXCEPT ![c] = "returned"]
  /\ UNCHANGED <<tmVars, chClosed, sends, pollerVars, tid, svc, panicked>>

(***************************************************************************)
(* ExecuteAsync: the request it prepares and submits                       *)
(***************************************************************************)
\* prepareAsyncEndpoint(endpoint).
prepareAsyncEndpoint(e) ==
  LET asyncEndpoint == IF e # << >> /\ e[Len(e)] # "?" THEN Append(e, "?") ELSE e
  IN Append(asyncEndpoint, "async_query=true")

\* prepareRequestBody(body): the map and the error it returns, or the panic
\* of an assignment to an entry of a nil map.
prepareRequestBody(b) ==
  IF b # NilBody
    THEN LET j == Marshal(b)
         IN IF ~j.ok
              THEN [kind |-> "err", m |-> << >>,
                    err |-> <<"failed to marshal request body: ", j.err>>]
              ELSE LET u == UnmarshalMap(j.doc)
                   IN IF ~u.ok
                        THEN [kind |-> "err", m |-> << >>,
                              err |-> <<"failed to unmarshal request body: ", u.err>>]
                        ELSE IF u.isNil
                          THEN [kind |-> "panic", m |-> << >>, err |-> << >>]
                          ELSE [kind |-> "ok",
                                m |-> [key \in DOMAIN u.m \cup {"async_query"} |->
                                         IF key = "async_query" THEN GoBool(TRUE)
                                                               ELSE u.m[key]],
                                err |-> << >>]
    ELSE [kind |-> "ok", m |-> [key \in {"async_query"} |-> GoBool(TRUE)], err |-> << >>]

\* ExecuteAsync, case "GET": client.Get(asyncEndpoint, &response).
ExecGet ==
  /\ ~panicked
  /\ rpc = "call"
  /\ method = "GET"
  /\ sent' = Append(sent, [method |-> "GET", endpoint |-> prepareAsyncEndpoint(endpoint),
                           body |-> NoRequestBody])
  /\ rpc' = "submitted"
  /\ UNCHANGED <<tmVars, chVars, pollerVars, callerVars, svc, panicked,
                 method, endpoint, body, rerr, lockVars, callVars>>

\* ExecuteAsync, case "POST", "PUT", "PATCH": prepareRequestBody, then
\* executeHTTPRequest unless the preparation failed.
ExecWrite ==
  /\ ~panicked
  /\ rpc = "call"
  /\ method \in WriteMethods
  /\ LET r == prepareRequestBody(body)
     IN CASE r.kind = "err" ->
               /\ rerr' = r.err
               /\ rpc' = "returned"
               /\ UNCHANGED <<sent, panicked>>
          [] r.kind = "panic" ->
               /\ panicked' = TRUE
               /\ UNCHANGED <<sent, rerr, rpc>>
          [] r.kind = "ok" ->
               /\ sent' = Append(sent, [method |-> method, endpoint |-> endpoint,
                                        body |-> MapBody(r.m)])
               /\ rpc' = "submitted"
               /\ UNCHANGED <<rerr, panicked>>
  /\ UNCHANGED <<tmVars, chVars, pollerVars, callerVars, svc, method, endpoint, body,
                 lockVars, callVars>>

\* Mutant of ExecUnsupported: the switch has no default case and hands every
\* other method to the transport as it is.
ExecUnsupported_Submits ==
  /\ ~panicked
  /\ rpc = "call"
  /\ method \notin WriteMethods \cup {"GET"}
  /\ sent' = Append(sent, [method |-> method, endpoint |-> endpoint, body |-> NoRequestBody])
  /\ rpc' = "submitted"
  /\ UNCHANGED <<tmVars, chVars, pollerVars, callerVars, svc, panicked,
                 method, endpoint, body, rerr, lockVars, callVars>>

\* ExecuteAsync, default case.
ExecUnsupported ==
  /\ ~panicked
  /\ rpc = "call"
  /\ method \notin WriteMethods \cup {"GET"}
  /\ rerr' = <<"unsupported HTTP method: ", method>>
  /\ rpc' = "returned"
  /\ UNCHANGED <<tmVars, chVars, pollerVars, callerVars, svc, panicked,
                 method, endpoint, body, sent, lockVars, callVars>>

(***************************************************************************)
(* Remote task service                                                     *)
(***************************************************************************)
\* A background job finishes: from now on the list endpoint reports it.
ServiceComplete(t) ==
  /\ ~panicked
  /\ UNCHANGED <<reqVars, lockVars, callVars>>
  /\ svc[t] = TaskStatusPending
  /\ svc' = [svc EXCEPT ![t] = TaskStatusCompleted]
  /\ UNCHANGED <<tmVars, chVars, pollerVars, callerVars, panicked>>

(***************************************************************************)
(* Specifications                                                          *)
(***************************************************************************)
\* Every step of the program but a Stop() called from outside.
NextNoStop ==
  \/ \E c \in Callers : SubmitFail(c)
  \/ \E c \in Callers : SubmitOk(c)
  \/ \E c \in Callers : Register(c)
  \/ \E c \in Callers : Receive(c)
  \/ \E p \in Pollers : PollSelect(p)
  \/ \E p \in Pollers : PollExit(p)
  \/ \E p \in Pollers : PollTick(p)
  \/ \E p \in Pollers : PollSelfStop(p)
  \/ \E p \in Pollers : PollList(p)
  \/ \E p \in Pollers : PollLookup(p)
  \/ \E p \in Pollers : PollFetch(p)
  \/ \E p \in Pollers : PollSend(p)
  \/ \E p \in Pollers : PollClose(p)
  \/ \E p \in Pollers : PollDelete(p)
  \/ \E t \in Tasks : ServiceComplete(t)

Next ==
  \/ NextNoStop
  \/ ExternalStop

\* The program with Stop() callable from outside at any time.
Spec == Init /\ [][Next]_vars

\* The program when nobody calls Stop() from outside.
SpecNoStop == Init /\ [][NextNoStop]_vars

\* One call of ExecuteAsync, its task and the poll activity it starts.
FirstCaller == 1

NextOneTask ==
  \/ SubmitFail(FirstCaller)
  \/ SubmitOk(FirstCaller)
  \/ Register(FirstCaller)
  \/ Receive(FirstCaller)
  \/ PollSelect(FirstCaller)
  \/ PollExit(FirstCaller)
  \/ PollTick(FirstCaller)
  \/ PollSelfStop(FirstCaller)
  \/ PollList(FirstCaller)
  \/ PollLookup(FirstCaller)
  \/ PollFetch(FirstCaller)
  \/ PollSend(FirstCaller)
  \/ PollClose(FirstCaller)
  \/ PollDelete(FirstCaller)
  \/ ServiceComplete(TaskOf(FirstCaller))

\* The ticker keeps firing and every goroutine that can run does run; a
\* poll-list request that is made again and again does not fail for ever.
FairOneTask ==
  /\ WF_vars(Register(FirstCaller))
  /\ WF_vars(Receive(FirstCaller))
  /\ WF_vars(PollSelect(FirstCaller))
  /\ WF_vars(PollTick(FirstCaller))
  /\ WF_vars(PollLookup(FirstCaller))
  /\ WF_vars(PollFetch(FirstCaller))
  /\ WF_vars(PollSend(FirstCaller))
  /\ WF_vars(PollClose(FirstCaller))
  /\ WF_vars(PollDelete(FirstCaller))
  /\ SF_vars(PollList(FirstCaller) /\ todo'[FirstCaller] # {})

SpecOneTask == Init /\ [][NextOneTask]_vars /\ FairOneTask

\* The request one ExecuteAsync call prepares and submits.
NextRequest ==
  \/ ExecGet
  \/ ExecWrite
  \/ ExecUnsupported

SpecRequest == InitRequest /\ [][NextRequest]_vars

(***************************************************************************)
(* Calls whose submissions are answered with one and the same task id      *)
(***************************************************************************)
\* The id the service answers every submission with.
SameID == TaskOf(FirstCaller)

\* ExecuteAsync: the submission succeeds and the service answers with the id
\* of a task it may still have outstanding.
SubmitSameID(c) ==
  /\ ~panicked
  /\ UNCHANGED <<reqVars, lockVars, callVars>>
  /\ cpc[c] = "idle"
  /\ svc' = [svc EXCEPT ![SameID] = IF @ = "none" THEN TaskStatusPending ELSE @]
  /\ tid' = [tid EXCEPT ![c] = SameID]
  /\ cpc' = [cpc EXCEPT ![c] = "register"]
  /\ UNCHANGED <<tmVars, chVars, pollerVars, raw, ret, panicked>>

NextSameID ==
  \/ \E c \in Callers : SubmitSameID(c)
  \/ \E c \in Callers : Register(c)
  \/ \E c \in Callers : Receive(c)
  \/ \E p \in Pollers : PollSelect(p)
  \/ \E p \in Pollers : PollExit(p)
  \/ \E p \in Pollers : PollTick(p)
  \/ \E p \in Pollers : PollSelfStop(p)
  \/ \E p \in Pollers : PollList(p)
  \/ \E p \in Pollers : PollLookup(p)
  \/ \E p \in Pollers : PollFetch(p)
  \/ \E p \in Pollers : PollSend(p)
  \/ \E p \in Pollers : PollClose(p)
  \/ \E p \in Pollers : PollDelete(p)
  \/ ServiceComplete(SameID)

\* RegisterTask called for an id that may already be pending.
SpecSameID == Init /\ [][NextSameID]_vars

(***************************************************************************)
(* sync.RWMutex tm.mu, statement by statement                              *)
(***************************************************************************)
\* The statement goroutine g executes next; none outside a critical section.
NoStatement == St("none", "none")
NextStatement(g) ==
  IF lpc[g] = Outside THEN NoStatement ELSE CriticalSections[lpc[g].fn][lpc[g].at]

\* Goroutine g has executed its statement.
Advance(g) ==
  lpc' = [lpc EXCEPT ![g] =
            IF @.at = Len(CriticalSections[@.fn]) THEN Outside
                                                  ELSE [@ EXCEPT !.at = @ + 1]]

\* A goroutine reaches the tm.mu call of one of the functions.
EnterSection(g) ==
  /\ lpc[g] = Outside
  /\ \E fn \in DOMAIN CriticalSections : lpc' = [lpc EXCEPT ![g] = [fn |-> fn, at |-> 1]]
  /\ UNCHANGED <<mu, bridgeVars, reqVars, callVars>>

\* tm.mu.Lock(): waits until nobody holds the mutex.
MuLock(g) ==
  /\ NextStatement(g).op = "Lock"
  /\ mu.w = NoHolder /\ mu.r = {}
  /\ mu' = [mu EXCEPT !.w = g]
  /\ Advance(g)
  /\ UNCHANGED <<bridgeVars, reqVars, callVars>>

\* tm.mu.RLock(): waits until nobody holds the mutex for writing.
MuRLock(g) ==
  /\ NextStatement(g).op = "RLock"
  /\ mu.w = NoHolder
  /\ mu' = [mu EXCEPT !.r = @ \cup {g}]
  /\ Advance(g)
  /\ UNCHANGED <<bridgeVars, reqVars, callVars>>

\* tm.mu.Unlock().
MuUnlock(g) ==
  /\ NextStatement(g).op = "Unlock"
  /\ mu' = [mu EXCEPT !.w = NoHolder]
  /\ Advance(g)
  /\ UNCHANGED <<bridgeVars, reqVars, callVars>>

\* tm.mu.RUnlock().
MuRUnlock(g) ==
  /\ NextStatement(g).op = "RUnlock"
  /\ mu' = [mu EXCEPT !.r = @ \ {g}]
  /\ Advance(g)
  /\ UNCHANGED <<bridgeVars, reqVars, callVars>>

\* A read or a write of tm.activeTasks or tm.pollingActive.
FieldAccess(g) ==
  /\ NextStatement(g).op \in {"read", "write"}
  /\ Advance(g)
  /\ UNCHANGED <<mu, bridgeVars, reqVars, callVars>>

\* Goroutines running the functions of TaskManager in any combination.
NextLock ==
  \/ \E g \in LockUsers : EnterSection(g)
  \/ \E g \in LockUsers : MuLock(g)
  \/ \E g \in LockUsers : MuRLock(g)
  \/ \E g \in LockUsers : MuUnlock(g)
  \/ \E g \in LockUsers : MuRUnlock(g)
  \/ \E g \in LockUsers : FieldAccess(g)

SpecLock == Init /\ [][NextLock]_vars

(***************************************************************************)
(* UserService.ProcessUsers                                                *)
(***************************************************************************)
\* One call made by ProcessUsers: s.Logout, s.Login or processFunc.
Ev(call, username) == [call |-> call, username |-> username]

\* ProcessUsers is called: the service knows some users, logged in or not;
\* the requests of the call succeed or fail.
InitUsers ==
  /\ InitBridge
  /\ method = "GET" /\ endpoint = << >> /\ body = NilBody
  /\ rpc = "off" /\ sent = << >> /\ rerr = << >>
  /\ mu = [w |-> NoHolder, r |-> {}]
  /\ lpc = [g \in LockUsers |-> Outside]
  /\ pud = NoProcessUserData
  /\ snap = NoSnapshot
  /\ \E getOk \in BOOLEAN :
     \E result \in [Usernames -> {StatusLoggedIn, StatusLoggedOut}] :
     \E loginOk \in [Usernames -> BOOLEAN] :
     \E processOk \in [Usernames -> BOOLEAN] :
       pu = [pc |-> "call", getOk |-> getOk, result |-> result, loginOk |-> loginOk,
             processOk |-> processOk, loggedInUsers |-> {}, rest |-> {},
             username |-> NoUser, log |-> << >>, err |-> << >>]

\* s.client.Get("/users", &userResponse) and the collection of the users
\* whose status is StatusLoggedIn; an error of the request is returned.
ProcessUsersGet ==
  /\ pu.pc = "call"
  /\ IF ~pu.getOk
       THEN pu' = [pu EXCEPT !.pc = "returned", !.err = <<"failed to get users: ">>]
       ELSE LET loggedIn == {u \in Usernames : pu.result[u] = StatusLoggedIn}
            IN pu' = [pu EXCEPT !.pc = IF loggedIn = {} THEN "range" ELSE "logoutAll",
                                !.loggedInUsers = loggedIn,
                                !.rest = Usernames]
  /\ UNCHANGED <<bridgeVars, reqVars, lockVars, pud, snap>>

\* The first loop: s.Logout(username) for the next user of loggedInUsers (the
\* slice has the order of a map iteration); an error is only logged.
ProcessUsersLogoutLoggedIn ==
  /\ pu.pc = "logoutAll"
  /\ \E u \in pu.loggedInUsers :
       pu' = [pu EXCEPT !.loggedInUsers = @ \ {u},
                        !.log = Append(@, Ev("Logout", u)),
                        !.pc = IF pu.loggedInUsers = {u} THEN "range" ELSE "logoutAll"]
  /\ UNCHANGED <<bridgeVars, reqVars, lockVars, pud, snap>>

\* The second loop, next user of the map: s.Login(username); on an error the
\* loop continues with the next user.
ProcessUsersLogin ==
  /\ pu.pc = "range"
  /\ \E u \in pu.rest :
       pu' = [pu EXCEPT !.rest = @ \ {u},
                        !.log = Append(@, Ev("Login", u)),
                        !.username = IF pu.loginOk[u] THEN u ELSE NoUser,
                        !.pc = IF pu.loginOk[u] THEN "process" ELSE "range"]
  /\ UNCHANGED <<bridgeVars, reqVars, lockVars, pud, snap>>

\* Mutant of ProcessUsersProcess: an error of processFunc skips the logout.
ProcessUsersProcess_ErrorSkipsLogout ==
  /\ pu.pc = "process"
  /\ pu' = [pu EXCEPT !.log = Append(@, Ev("processFunc", pu.username)),
                      !.username = IF pu.processOk[pu.username] THEN @ ELSE NoUser,
                      !.pc = IF pu.processOk[pu.username] THEN "logout" ELSE "range"]
  /\ UNCHANGED <<bridgeVars, reqVars, lockVars, pud, snap>>

\* processFunc(username); an error is only logged.
ProcessUsersProcess ==
  /\ pu.pc = "process"
  /\ pu' = [pu EXCEPT !.log = Append(@, Ev("processFunc", pu.username)),
                      !.pc = "logout"]
  /\ UNCHANGED <<bridgeVars, reqVars, lockVars, pud, snap>>

\* s.Logout(username) at the end of the loop body; an error is only logged.
ProcessUsersLogout ==
  /\ pu.pc = "logout"
  /\ pu' = [pu EXCEPT !.log = Append(@, Ev("Logout", pu.username)),
                      !.username = NoUser,
                      !.pc = "range"]
  /\ UNCHANGED <<bridgeVars, reqVars, lockVars, pud, snap>>

\* The map is exhausted: return nil.
ProcessUsersReturn ==
  /\ pu.pc = "range"
  /\ pu.rest = {}
  /\ pu' = [pu EXCEPT !.pc = "returned"]
  /\ UNCHANGED <<bridgeVars, reqVars, lockVars, pud, snap>>

NextUsers ==
  \/ ProcessUsersGet
  \/ ProcessUsersLogoutLoggedIn
  \/ ProcessUsersLogin
  \/ ProcessUsersProcess
  \/ ProcessUsersLogout
  \/ ProcessUsersReturn

SpecUsers == InitUsers /\ [][NextUsers]_vars

(***************************************************************************)
(* SyncService.ProcessUserData                                             *)
(***************************************************************************)
\* ProcessUserData is called; each of its five calls will succeed or fail.
InitUserData ==
  /\ InitBridge
  /\ method = "GET" /\ endpoint = << >> /\ body = NilBody
  /\ rpc = "off" /\ sent = << >> /\ rerr = << >>
  /\ mu = [w |-> NoHolder, r |-> {}]
  /\ lpc = [g \in LockUsers |-> Outside]
  /\ pu = NoProcessUsers
  /\ snap = NoSnapshot
  /\ \E failing \in SUBSET StageNames :
       pud = [pc |-> Stages[1], failing |-> failing, log |-> << >>, logged |-> << >>,
              err |-> << >>]

\* What follows the i-th call.
AfterStage(i) == IF i = Len(Stages) THEN "return" ELSE Stages[i + 1]

\* Mutant of RunStage: the error of a call is returned to the caller.
RunStage_FailureReturns(i) ==
  /\ pud.pc = Stages[i]
  /\ pud' = [pud EXCEPT !.log = Append(@, Stages[i]),
                        !.err = IF Stages[i] \in pud.failing THEN <<"Failed: ", Stages[i]>> ELSE @,
                        !.pc = IF Stages[i] \in pud.failing THEN "returned" ELSE AfterStage(i)]
  /\ UNCHANGED <<bridgeVars, reqVars, lockVars, pu, snap>>

\* if err := <the i-th call>; err != nil { logger.Error(...) }.
RunStage(i) ==
  /\ pud.pc = Stages[i]
  /\ pud' = [pud EXCEPT !.log = Append(@, Stages[i]),
                        !.logged = IF Stages[i] \in pud.failing THEN Append(@, Stages[i]) ELSE @,
                        !.pc = AfterStage(i)]
  /\ UNCHANGED <<bridgeVars, reqVars, lockVars, pu, snap>>

StagePerformSnapshotIfNeeded == RunStage(1)
StageGetExchangeTrades == RunStage(2)
StageFetchOnlineEvents == RunStage(3)
StageFetchEvmTransactions == RunStage(4)
StageDecodeEvmTransactions == RunStage(5)

\* return nil.
ProcessUserDataReturn ==
  /\ pud.pc = "return"
  /\ pud' = [pud EXCEPT !.pc = "returned", !.err = << >>]
  /\ UNCHANGED <<bridgeVars, reqVars, lockVars, pu, snap>>

NextUserData ==
  \/ StagePerformSnapshotIfNeeded
  \/ StageGetExchangeTrades
  \/ StageFetchOnlineEvents
  \/ StageFetchEvmTransactions
  \/ StageDecodeEvmTransactions
  \/ ProcessUserDataReturn

SpecUserData == InitUserData /\ [][NextUserData]_vars

(***************************************************************************)
(* BlockchainService.PerformSnapshotIfNeeded, TakeBalanceSnapshot          *)
(***************************************************************************)
\* Go's integer division, which truncates toward zero.
GoDiv(a, b) == IF a >= 0 THEN a \div b ELSE -((-a) \div b)

\* The balance_save_frequency settings, in hours.
Frequencies == 0 .. MaxFrequency
\* Values of time.Now().Unix(): every half hour up to past the longest
\* interval, and the seconds around it.
Clock == {h * (SecondsPerHour \div 2) + d : h \in 0 .. 2 * MaxFrequency + 1, d \in {-1, 0, 1}} \cap Nat
\* Values of last_balance_save.
LastSaves == {0, SecondsPerHour}

\* PerformSnapshotIfNeeded is called: the settings of the service, the clock
\* and the outcomes of the three requests.
InitSnapshot ==
  /\ InitBridge
  /\ method = "GET" /\ endpoint = << >> /\ body = NilBody
  /\ rpc = "off" /\ sent = << >> /\ rerr = << >>
  /\ mu = [w |-> NoHolder, r |-> {}]
  /\ lpc = [g \in LockUsers |-> Outside]
  /\ pu = NoProcessUsers
  /\ pud = NoProcessUserData
  /\ \E lastOk, frequencyOk, takeOk \in BOOLEAN :
     \E last \in LastSaves, frequency \in Frequencies, now \in Clock :
       snap = [pc |-> "last", lastOk |-> lastOk, frequencyOk |-> frequencyOk,
               takeOk |-> takeOk, lastBalanceSave |-> last,
               balanceSaveFrequency |-> frequency, currentTime |-> now,
               requests |-> << >>, err |-> << >>]

\* lastBalanceSave, err := s.GetLastBalanceSave().
PerformSnapshotGetLast ==
  /\ snap.pc = "last"
  /\ snap' = IF snap.lastOk
               THEN [snap EXCEPT !.pc = "frequency"]
               ELSE [snap EXCEPT !.pc = "returned",
                                 !.err = <<"failed to get last balance save: ">>]
  /\ UNCHANGED <<bridgeVars, reqVars, lockVars, pu, pud>>

\* balanceSaveFrequency, err := s.GetBalanceSaveFrequency().
PerformSnapshotGetFrequency ==
  /\ snap.pc = "frequency"
  /\ snap' = IF snap.frequencyOk
               THEN [snap EXCEPT !.pc = "decide"]
               ELSE [snap EXCEPT !.pc = "returned",
                                 !.err = <<"failed to get balance save frequency: ">>]
  /\ UNCHANGED <<bridgeVars, reqVars, lockVars, pu, pud>>

timeSinceLastSave == snap.currentTime - snap.lastBalanceSave
requiredInterval == snap.balanceSaveFrequency * SecondsPerHour
enoughTimeElapsed == timeSinceLastSave >= GoDiv(requiredInterval, 2)

\* Mutant of requiredTimeElapsed: a strict comparison.
requiredTimeElapsed_Strict == timeSinceLastSave > requiredInterval

requiredTimeElapsed == timeSinceLastSave >= requiredInterval

\* The endpoint TakeBalanceSnapshot(forceSnapshot) hands to async.Get.
SnapshotEndpoint(forceSnapshot) ==
  <<"/balances">> \o (IF forceSnapshot THEN <<"?", "save_data=true">> ELSE << >>)

\* if enoughTimeElapsed: s.TakeBalanceSnapshot(enoughTimeElapsed &&
\* !requiredTimeElapsed), whose error is returned.
PerformSnapshotTake ==
  /\ snap.pc = "decide"
  /\ enoughTimeElapsed
  /\ snap' = [snap EXCEPT
       !.requests = Append(@, SnapshotEndpoint(enoughTimeElapsed /\ ~requiredTimeElapsed)),
       !.err = IF snap.takeOk THEN << >> ELSE <<"failed to take balance snapshot: ">>,
       !.pc = "returned"]
  /\ UNCHANGED <<bridgeVars, reqVars, lockVars, pu, pud>>

\* else: the snapshot is skipped.
PerformSnapshotSkip ==
  /\ snap.pc = "decide"
  /\ ~enoughTimeElapsed
  /\ snap' = [snap EXCEPT !.pc = "returned"]
  /\ UNCHANGED <<bridgeVars, reqVars, lockVars, pu, pud>>

NextSnapshot ==
  \/ PerformSnapshotGetLast
  \/ PerformSnapshotGetFrequency
  \/ PerformSnapshotTake
  \/ PerformSnapshotSkip

SpecSnapshot == InitSnapshot /\ [][NextSnapshot]_vars

(***************************************************************************)
(* Vocabulary of the properties                                            *)
(***************************************************************************)
\* The pollTasks goroutines that have been started and have not returned.
AlivePollers == {p \in Pollers : ppc[p] \notin {"none", "dead"}}

\* Caller c has called RegisterTask.
Registered(c) == cpc[c] \in {"wait", "returned"} /\ tid[c] # NoTask

\* Poller p executes its send statement in this step.
SendExecuted(p) == ppc[p] = "send" /\ sends'[rch[p]] = sends[rch[p]] + 1

\* Caller c executes RegisterTask in this step.
RegisterExecuted(c) == cpc[c] = "register" /\ cpc'[c] = "wait"

FetchError == [err |-> TRUE, status |-> "", outcome |-> NoBytes, message |-> NoMessage]

(***************************************************************************)
(* Properties                                                              *)
(***************************************************************************)

\* C1: without an external Stop, a registered task that the service reports
\* completed is delivered exactly once and leaves the pending map.  Stated on
\* the runs that have come to rest: when no step of the program is possible
\* any more, every registered and completed task has had exactly one send on
\* its slot and is absent from the map.
C1_CompletedTaskDelivered ==
  \A c \in Callers :
    (Registered(c) /\ svc[tid[c]] = TaskStatusCompleted /\ ~ENABLED NextNoStop)
      => (sends[c] = 1 /\ tid[c] \notin DOMAIN activeTasks)

\* C2: no result channel ever has a second send executed on it.
C2_AtMostOneDelivery == \A ch \in Chans : sends[ch] <= 1

\* C3: at most one pollTasks goroutine is alive.
C3_SinglePollActivity == Cardinality(AlivePollers) <= 1

\* C4: RegisterTask with pollingActive false sets it and starts exactly one
\* poll activity (its own); with pollingActive true it starts none and leaves
\* the flag set; so registrations alone (no termination requested yet) leave
\* a single poll activity, hence a single poll-list request per tick.
C4_RegisterStartsOnePoller ==
  /\ [][\A c \in Callers : RegisterExecuted(c) =>
          IF ~pollingActive
            THEN /\ pollingActive'
                 /\ c \notin AlivePollers
                 /\ AlivePollers' = AlivePollers \cup {c}
            ELSE /\ pollingActive'
                 /\ ppc' = ppc]_vars
  /\ []((\A s \in StopChans : ~stopClosed[s]) => Cardinality(AlivePollers) <= 1)

\* C4 witness: both callers have registered, the first registration started
\* the poller and the second did not.
C4_Witness ==
  /\ \A c \in Callers : cpc[c] = "wait"
  /\ pollingActive
  /\ Cardinality(AlivePollers) = 1
  /\ \A s \in StopChans : ~stopClosed[s]

\* C5: a tick that finds the pending map empty issues no poll-list request,
\* and the self-stop it makes requests termination: afterwards the stop
\* signal is signalled and polling is inactive (so that the poller exits at
\* its next select).
C5_EmptyTickStopsPolling ==
  [][\A p \in Pollers :
       /\ (ppc[p] = "wait" /\ ppc'[p] \notin {"wait", "dead"} /\ DOMAIN activeTasks = {})
            => ppc'[p] = "stop"
       /\ (ppc[p] = "stop" /\ ppc'[p] = "select")
            => (~pollingActive' /\ stopClosed'[stopPolling'])]_vars

\* C6: a caller that has registered returns only after a send on its own
\* slot, with the envelope sent for its own task; until then its receive is
\* blocked, whatever else happens, and a task the service never reports
\* completed keeps its caller waiting.
C6_ReturnOnlyAfterOwnDelivery ==
  \A c \in Callers :
    /\ (cpc[c] = "returned" /\ tid[c] # NoTask)
         => /\ sends[c] >= 1
            /\ raw[c] \in {Envelope(tid[c], r) : r \in FetchResults}
    /\ (cpc[c] = "wait" /\ sends[c] = 0) => ~ChanRecvReady(c)
    /\ (Registered(c) /\ svc[tid[c]] # TaskStatusCompleted)
         => (cpc[c] = "wait" /\ sends[c] = 0)

\* C6 witness: a caller still waits on a task that is not completed, although
\* another caller has been delivered to and polling has been stopped.
C6_Witness ==
  \E c, d \in Callers :
    /\ c # d
    /\ cpc[c] = "wait" /\ svc[tid[c]] = TaskStatusPending
    /\ cpc[d] = "returned" /\ tid[d] # NoTask
    /\ ~pollingActive /\ stopClosed[stopPolling]

\* C7: a failed submission returns an error at once and registers nothing:
\* the step leaves the pending map, pollingActive, the stop channel and every
\* poller as they were, and the caller has no task and no poller of its own.
C7_SubmitFailureRegistersNothing ==
  /\ [][\A c \in Callers : (cpc[c] = "idle" /\ cpc'[c] = "returned") =>
          /\ ret'[c].resp = "nil" /\ ret'[c].err # << >>
          /\ UNCHANGED <<activeTasks, pollingActive, stopPolling, stopClosed, ppc>>]_vars
  /\ [](\A c \in Callers : ret[c] = InitiateError =>
          /\ tid[c] = NoTask
          /\ ppc[c] = "none"
          /\ \A t \in DOMAIN activeTasks : activeTasks[t] # c)

\* C7 witness: a submission has failed while another task was pending and
\* polling was active.
C7_Witness ==
  \E c \in Callers :
    /\ ret[c] = InitiateError
    /\ pollingActive
    /\ DOMAIN activeTasks # {}

\* C8: when the result fetch of a completed pending task fails, the send puts
\* a failure envelope (empty result, non-empty message) into the task's slot,
\* and fetchTaskResult then removes the task from the pending map.
C8_FetchFailureDelivered ==
  [][\A p \in Pollers :
       /\ (SendExecuted(p) /\ fres[p].err)
            => /\ ~panicked'
               /\ chBuf'[rch[p]] = << Envelope(cur[p], fres[p]) >>
               /\ Envelope(cur[p], fres[p]).Result = NoBytes
               /\ Envelope(cur[p], fres[p]).Message # NoMessage
       /\ (ppc[p] = "delete" /\ ppc'[p] # "delete")
            => cur[p] \notin DOMAIN activeTasks']_vars

\* C9: when the result of a completed pending task has status not-found, the
\* send puts into the task's slot a failure envelope (empty result) whose
\* message differs from the one of a failed fetch, and the task is then
\* removed from the pending map.
C9_NotFoundDelivered ==
  [][\A p \in Pollers :
       /\ (SendExecuted(p) /\ ~fres[p].err /\ fres[p].status = TaskStatusNotFound)
            => /\ ~panicked'
               /\ Len(chBuf'[rch[p]]) = 1
               /\ Head(chBuf'[rch[p]]).Result = NoBytes
               /\ Head(chBuf'[rch[p]]).Message # NoMessage
               /\ Head(chBuf'[rch[p]]).Message # Envelope(cur[p], FetchError).Message
       /\ (ppc[p] = "delete" /\ ppc'[p] # "delete")
            => cur[p] \notin DOMAIN activeTasks']_vars

\* C10: a caller that received a failure envelope (empty result: fetch failure
\* or not-found alike) gets an error and no decoded result, the same error in
\* both cases; a caller that received a decodable outcome is not affected.
C10_FailureEnvelopeIsError ==
  \A c \in Callers :
    (cpc[c] = "returned" /\ tid[c] # NoTask) =>
      /\ raw[c].Result = NoBytes =>
           ret[c] = [resp |-> "nil",
                     err |-> <<"failed to unmarshal task result: ",
                               "unexpected end of JSON input">>]
      /\ raw[c].Result = JsonGood => ret[c] = [resp |-> "true", err |-> << >>]

\* C10 witness: one caller got the error for a not-found envelope while the
\* other got its decoded result.
C10_Witness ==
  \E c, d \in Callers :
    /\ cpc[c] = "returned" /\ raw[c] = Envelope(tid[c], [FetchError EXCEPT !.err = FALSE, !.status = TaskStatusNotFound])
    /\ ret[c].err # << >>
    /\ cpc[d] = "returned" /\ raw[d].Result = JsonGood /\ ret[d].err = << >>

\* The statement of ExecuteAsync/waitForTaskResult that built the error a
\* call returned: the text its fmt.Errorf puts in front of the wrapped error.
ErrorKind(r) == IF r.err = << >> THEN "" ELSE r.err[1]

\* C11: the error a caller gets for a delivered failure envelope (empty
\* result with a diagnostic message: fetch failure or not-found) is of
\* another kind than the error a caller gets when delivered outcome bytes do
\* not decode into the expected shape.
C11_DecodeFailureDistinct ==
  \A c, d \in Callers :
    ( /\ cpc[c] = "returned" /\ tid[c] # NoTask
      /\ raw[c].Result = NoBytes /\ raw[c].Message # NoMessage
      /\ cpc[d] = "returned" /\ tid[d] # NoTask
      /\ raw[d].Result # NoBytes /\ ret[d].err # << >> )
    => ErrorKind(ret[c]) # ErrorKind(ret[d])

\* Poller p's poll-list request fails in this step.
ListFailed(p) == ppc[p] = "list" /\ ppc'[p] = "select" /\ CompletedList # {}

C13_PerTaskDelivery ==
  /\ \A p \in Pollers :
       ppc[p] \in {"fetch", "send", "close", "delete"}
         => (rch[p] \in Chans /\ cur[p] = tid[rch[p]])
  /\ \A c \in Callers :
       /\ \A i \in 1 .. Len(chBuf[c]) :
            chBuf[c][i] \in {Envelope(tid[c], r) : r \in FetchResults}
       /\ (Registered(c) /\ svc[tid[c]] # TaskStatusCompleted)
            => (chBuf[c] = << >> /\ ~chClosed[c] /\ cpc[c] = "wait")
       /\ (cpc[c] = "returned" /\ tid[c] # NoTask /\ raw[c].Message # NoMessage
             /\ raw[c].Result = NoBytes /\ Len(raw[c].Message) = 3)
            => raw[c].Message[2] = Itoa(tid[c])

\* C13 witness: 101's caller has received the outcome bytes of 101 while 102
\* was pending; 102 has then been fetched as not-found and its failure
\* envelope is in 102's slot.
C13_Witness ==
  /\ cpc[1] = "returned" /\ raw[1].Result = JsonGood
  /\ cpc[2] = "wait"
  /\ chBuf[2] = << [Result |-> NoBytes, Message |-> <<"Task ", "102", " not found">>] >>

\* The positions of an ExecuteAsync call, in the order a call goes through.
CallRank(pos) ==
  CASE pos = "idle" -> 0 [] pos = "register" -> 1 [] pos = "wait" -> 2
    [] pos = "returned" -> 3

\* C14: a call only moves forward, one statement at a time: from the
\* submission either to the error return (a failed submission is final, the
\* call never submits again) or to RegisterTask, made once with the task id
\* of the submission, then to the receive, which takes one value out of the
\* call's own slot and returns; nothing else takes a value out of that slot,
\* and a call that has returned stays returned.
C14_OneSubmitRegisterReceive ==
  [][\A c \in Callers :
       /\ cpc'[c] # cpc[c] =>
            \/ cpc[c] = "idle" /\ cpc'[c] = "returned" /\ tid'[c] = NoTask
                 /\ activeTasks' = activeTasks
            \/ cpc[c] = "idle" /\ cpc'[c] = "register" /\ tid'[c] # NoTask
                 /\ activeTasks' = activeTasks
            \/ cpc[c] = "register" /\ cpc'[c] = "wait"
                 /\ tid[c] \notin DOMAIN activeTasks
                 /\ activeTasks' = MapPut(activeTasks, tid[c], c)
            \/ cpc[c] = "wait" /\ cpc'[c] = "returned"
                 /\ Len(chBuf[c]) = 1 /\ chBuf'[c] = << >>
                 /\ raw'[c] = chBuf[c][1]
       /\ CallRank(cpc'[c]) >= CallRank(cpc[c])
       /\ Len(chBuf'[c]) < Len(chBuf[c]) => (cpc[c] = "wait" /\ cpc'[c] = "returned")
       /\ cpc[c] # "register" => \A t \in DOMAIN activeTasks' \ DOMAIN activeTasks :
                                    activeTasks'[t] # c
       /\ tid[c] # NoTask => tid'[c] = tid[c]]_vars

\* C14 witness: both calls have submitted, registered and received; their
\* slots are empty and their tasks are gone from the map.
C14_Witness ==
  /\ \A c \in Callers : cpc[c] = "returned" /\ tid[c] # NoTask /\ chBuf[c] = << >>
  /\ DOMAIN activeTasks = {}
  /\ \A ch \in Chans : sends[ch] = 1

\* A call of Stop(), from outside or by a poller on an empty registry.
StopCall == ExternalStop \/ \E p \in Pollers : PollSelfStop(p)

\* C15: while pollingActive is false no call of Stop() changes anything of
\* the manager: the pending map, the flag, the stop channel the field holds
\* and the closed state of every stop channel stay as they are, and nothing
\* panics.
C15_StopWhenInactiveIsNoOp ==
  ~pollingActive =>
    ~ENABLED (StopCall /\ ~UNCHANGED <<activeTasks, pollingActive, stopPolling,
                                       stopClosed, panicked>>)

\* C15 witness: right after a Stop (the flag is false and the stop channel
\* closed) a poller that found the registry empty is about to call Stop.
C15_Witness ==
  /\ ~pollingActive
  /\ stopClosed[stopPolling]
  /\ \E p \in Pollers : ppc[p] = "stop"

\* C20: the stop channel is never closed twice.  Whenever pollingActive is
\* true the channel the field holds is open (RegisterTask sets the flag only
\* together with a channel it has just made), so the close inside Stop, made
\* only when the flag is true, never hits a closed channel: no call of Stop(),
\* external or by a poller, in any interleaving, can panic.
C20_NoDoubleClose ==
  /\ pollingActive => ~stopClosed[stopPolling]
  /\ ~ENABLED (StopCall /\ panicked')

\* C20 witness: termination has been signalled twice, each time on the
\* channel made by the latest restart of polling, and nothing has panicked.
C20_Witness ==
  /\ \A c \in Callers : stopClosed[c]
  /\ ~panicked

\* The poll activities that are alive and have not been told to terminate:
\* poller p was started together with stop channel p.
RunningPollers == {p \in AlivePollers : ~stopClosed[p]}

\* C19: pollingActive is true exactly when a poll activity is running (alive;
\* an activity whose termination has been signalled and that is on its way
\* out is not counted).
C19_FlagIffPollerRunning == pollingActive <=> RunningPollers # {}

\* How many pieces of endpoint e are the piece x.
CountOf(e, x) == Cardinality({i \in 1 .. Len(e) : e[i] = x})

\* The request handed to the transport by the call that has submitted.
Submitted == sent[1]

\* C16: the endpoint a GET submits is the original endpoint followed by the
\* marker async_query=true as a query parameter: the marker comes right after
\* the '?' when the endpoint had no parameter, after an '&' joining it to the
\* parameters the endpoint had, and the whole has a single '?'.  Stated for
\* the endpoints that are not the empty string.
C16_AsyncEndpointWellFormed ==
  (rpc = "submitted" /\ method = "GET" /\ endpoint # << >>) =>
    LET e == Submitted.endpoint
        n == Len(e)
    IN /\ n >= 2
       /\ e[n] = "async_query=true"
       /\ CountOf(e, "?") = 1
       /\ IF CountOf(endpoint, "?") = 0
            THEN e = endpoint \o <<"?", "async_query=true">>
            ELSE IF endpoint[Len(endpoint)] = "?"
              THEN e = endpoint \o <<"async_query=true">>
              ELSE e = endpoint \o <<"&", "async_query=true">>

\* The JSON document the transport writes for the body of a submitted request.
SentJSON == Marshal(Submitted.body).doc

\* C17: the body a POST, PUT or PATCH submits is an object with the keys of
\* the original object body and the key async_query; async_query is true,
\* whatever the original held under it, and every other key has the JSON
\* value the original body has; with no body it is {async_query: true}.
C17_BodyKeepsKeysAndValues ==
  (rpc = "submitted" /\ method \in WriteMethods) =>
    /\ SentJSON.k = "object"
    /\ SentJSON.m["async_query"] = [k |-> "bool", b |-> TRUE]
    /\ IF body = NilBody
         THEN DOMAIN SentJSON.m = {"async_query"}
         ELSE /\ DOMAIN SentJSON.m = DOMAIN body.m \cup {"async_query"}
              /\ \A key \in DOMAIN body.m \ {"async_query"} :
                   SentJSON.m[key] = Marshal(body).doc.m[key]

\* C18: a POST, PUT or PATCH whose body is neither absent nor an object ends
\* with an error returned to the caller: nothing has been submitted, nothing
\* is registered and the process has not panicked.
C18_NonObjectBodyRejected ==
  ( /\ method \in WriteMethods
    /\ body \notin ObjectBodies \cup {NilBody}
    /\ (rpc # "call" \/ panicked) )
  => ( /\ rpc = "returned"
       /\ rerr # << >>
       /\ sent = << >>
       /\ DOMAIN activeTasks = {}
       /\ ~panicked )

\* C21: without an external Stop, whenever a task is pending a poll activity
\* is alive to tick for it, whatever the interleaving of a registration with
\* a poller that has found the map empty and is about to call Stop.
C21_PendingHasLivePoller == DOMAIN activeTasks # {} => AlivePollers # {}

\* C22: a poll activity whose termination has been signalled (the stop
\* channel it was started with is closed) and that waits in its select has
\* the stop case ready: the channel its select waits on is closed.
C22_SignalledPollerObserves ==
  \A p \in Pollers : (ppc[p] = "wait" /\ stopClosed[p]) => stopClosed[sel[p]]

\* C23: pollingActive goes from true to false only in a step that leaves the
\* stop channel of the latest started poll activity (the one the field
\* holds) closed, i.e. when termination of that activity is requested.
C23_FlagResetOnlyByStop ==
  [][(pollingActive /\ ~pollingActive') => stopClosed'[stopPolling']]_vars

\* C24: a registration made while polling is idle starts a poll activity of
\* its own, and its task is delivered once the service reports it completed.
\* Stated, without an external Stop, on the runs that have come to rest: when
\* no step of the program is possible any more, every task whose
\* registration started a poll activity and that is reported completed has
\* been delivered.
C24_RestartDelivers ==
  \A c \in Callers :
    ( /\ Registered(c) /\ ppc[c] # "none"
      /\ svc[tid[c]] = TaskStatusCompleted
      /\ ~ENABLED NextNoStop )
    => sends[c] >= 1

\* C25: a tick's poll-list request either yields a non-empty completed list to
\* range over, or (failure, or nothing completed) ends the tick there: the
\* poller goes back to its select and the step changes nothing else: no slot
\* is sent to or closed, no entry is removed, no fetch is started,
\* pollingActive and the stop channel are as before, and no caller moves or
\* receives anything.
C25_ListFailureIsNoOp ==
  [][\A p \in Pollers : (ppc[p] = "list" /\ ppc'[p] # "list") =>
       \/ /\ ppc'[p] = "loop"
          /\ todo'[p] = CompletedList /\ CompletedList # {}
          /\ UNCHANGED <<tmVars, chVars, cur, rch, fres, callerVars, panicked>>
       \/ /\ ppc'[p] = "select"
          /\ p \in AlivePollers'
          /\ UNCHANGED <<tmVars, chVars, todo, cur, rch, fres, callerVars, panicked>>
          /\ \A q \in Pollers \ {p} : ppc'[q] = ppc[q]]_vars

\* C25 witness: both tasks are pending and reported completed, both callers
\* wait, and a poller that has made its poll-list request is back at its
\* select with nothing delivered and nothing to range over.
C25_Witness ==
  /\ \A c \in Callers : cpc[c] = "wait" /\ svc[tid[c]] = TaskStatusCompleted
                        /\ sends[c] = 0 /\ tid[c] \in DOMAIN activeTasks
  /\ pollingActive
  /\ \E p \in Pollers : ppc[p] = "select" /\ todo[p] = {}

\* The fetch outcome r makes fetchTaskResult send a failure envelope.
IsFailure(r) == r.err \/ r.status = TaskStatusNotFound

\* C26: the delivery of a failure envelope (failed fetch or not-found) for
\* task t touches no other pending task and does not stop polling: every
\* other entry stays in the map with the same slot, that slot's buffer and
\* closed state are as before, the process goes on and the poller is alive
\* to deliver the others.
C26_FailureLeavesOthers ==
  [][\A p \in Pollers : (SendExecuted(p) /\ IsFailure(fres[p])) =>
       /\ ~panicked'
       /\ p \in AlivePollers'
       /\ \A u \in DOMAIN activeTasks \ {cur[p]} :
            /\ u \in DOMAIN activeTasks' /\ activeTasks'[u] = activeTasks[u]
            /\ chBuf'[activeTasks[u]] = chBuf[activeTasks[u]]
            /\ chClosed'[activeTasks[u]] = chClosed[activeTasks[u]]]_vars

\* C27: when the result fetch of a completed pending task succeeds with a
\* status other than not-found, the send puts into the task's slot the
\* envelope made of the fetched outcome bytes and the service's message, and
\* fetchTaskResult then removes the task from the pending map.
C27_OutcomeDelivered ==
  [][\A p \in Pollers :
       /\ (SendExecuted(p) /\ ~IsFailure(fres[p]))
            => /\ ~panicked'
               /\ chBuf'[rch[p]] =
                    << [Result |-> fres[p].outcome, Message |-> fres[p].message] >>
       /\ (ppc[p] = "delete" /\ ppc'[p] # "delete")
            => (cur[p] \notin DOMAIN activeTasks' /\ chClosed[rch[p]])]_vars

\* C28: an iteration of the range over the completed list whose id has no
\* pending entry starts no fetch and changes nothing but the poller's place
\* in the list: the pending map, pollingActive, the stop channel, every slot
\* and every caller are as before; an id that has an entry starts the fetch
\* of that id with the entry's slot.
C28_UnmatchedIdIgnored ==
  [][\A p \in Pollers : (ppc[p] = "loop" /\ todo'[p] # todo[p]) =>
       \E t \in todo[p] :
         /\ todo'[p] = todo[p] \ {t}
         /\ IF t \in DOMAIN activeTasks
              THEN ppc'[p] = "fetch" /\ cur'[p] = t /\ rch'[p] = activeTasks[t]
              ELSE /\ ppc'[p] \in {"loop", "select"}
                   /\ cur'[p] = cur[p] /\ rch'[p] = rch[p] /\ fres' = fres
                   /\ UNCHANGED <<tmVars, chVars, callerVars, panicked>>]_vars

\* C28 witness: a poller has ranged over a completed list that held 102 while
\* 102 had no pending entry (its caller has not registered yet), and it is
\* now fetching 101 with nothing left to range over.
C28_Witness ==
  /\ svc[102] = TaskStatusCompleted
  /\ cpc[2] = "register"
  /\ svc[101] = TaskStatusCompleted
  /\ ppc[1] = "fetch" /\ cur[1] = 101 /\ todo[1] = {}
  /\ DOMAIN activeTasks = {101}

\* The frame of an external Stop() that finds pollingActive true: it closes
\* the stop channel and clears the flag, and touches neither the pending map
\* nor a slot nor a caller nor a poller.
ExternalStopFrame ==
  (ExternalStop /\ pollingActive) =>
    /\ ~pollingActive' /\ stopClosed'[stopPolling]
    /\ UNCHANGED <<activeTasks, stopPolling, chBuf, chClosed, sends, cpc, raw, ret,
                   ppc, panicked>>

\* C29: an external Stop while entries are pending takes the registry from
\* Polling to Idle and changes nothing else.  Whenever entries are pending
\* and a poll activity is running, Stop() reaches that activity (the flag is
\* true and the field holds the activity's stop channel), and the Stop step
\* clears the flag, signals termination and leaves map, slots and callers as
\* they are.
C29_ExternalStopIdles ==
  /\ [][ExternalStopFrame]_vars
  /\ [](\A p \in RunningPollers :
          DOMAIN activeTasks # {} => (pollingActive /\ stopPolling = p))

\* C30: an entry leaves the pending map only in the delete of a poller's
\* fetchTaskResult for that task id, after a send on its slot and the close
\* of the slot; an entry that is gone does not come back and so is removed
\* once; and no registered task is absent from the map without a delivery.
C30_RemovedOnlyAfterDelivery ==
  /\ [][\A t \in DOMAIN activeTasks : t \notin DOMAIN activeTasks' =>
          /\ \E p \in Pollers : ppc[p] = "delete" /\ cur[p] = t
                                /\ rch[p] = activeTasks[t] /\ ppc'[p] # "delete"
          /\ sends[activeTasks[t]] >= 1
          /\ chClosed[activeTasks[t]]
          /\ DOMAIN activeTasks' = DOMAIN activeTasks \ {t}]_vars
  /\ [][\A c \in Callers :
          (Registered(c) /\ tid[c] \notin DOMAIN activeTasks)
            => tid[c] \notin DOMAIN activeTasks']_vars
  /\ [](\A c \in Callers :
          (Registered(c) /\ tid[c] \notin DOMAIN activeTasks) => sends[c] >= 1)

\* C30 witness: one entry has been removed after the delivery of a failure
\* envelope and the other after the delivery of an outcome.
C30_Witness ==
  \E c, d \in Callers :
    /\ Registered(c) /\ Registered(d)
    /\ DOMAIN activeTasks = {}
    /\ cpc[c] = "returned" /\ raw[c].Result = NoBytes /\ raw[c].Message # NoMessage
    /\ cpc[d] = "returned" /\ raw[d].Result # NoBytes

\* Goroutine g is about to read or write one of the two fields.
Accessing(g) == NextStatement(g).op \in {"read", "write"}
Modifying(g) == NextStatement(g).op = "write"

\* C31: every read and every modification of tm.activeTasks and of
\* tm.pollingActive is made by a goroutine that holds tm.mu (for writing when
\* it modifies), and no goroutine modifies one of them while another reads or
\* modifies them.
C31_AccessInsideLock ==
  /\ \A g \in LockUsers :
       /\ Accessing(g) => mu.w = g \/ g \in mu.r
       /\ Modifying(g) => mu.w = g
  /\ \A g, h \in LockUsers : g # h /\ Modifying(g) => ~Accessing(h)

\* Two goroutines read the map at the same time while a third waits at Lock().
C31_Witness ==
  \E g, h, k \in LockUsers :
    /\ g # h
    /\ NextStatement(g) = St("read", "activeTasks")
    /\ NextStatement(h) = St("read", "activeTasks")
    /\ NextStatement(k) = St("Lock", "mu")

\* C32: a poll activity that has reached the send of fetchTaskResult finds the
\* slot empty and open, so the send completes at once, neither waiting for
\* the caller to receive nor panicking, and the slot receives a single send.
C32_DeliveryNeverBlocks ==
  \A p \in Pollers :
    ppc[p] = "send" /\ ~panicked =>
      /\ chBuf[rch[p]] = << >>
      /\ ~chClosed[rch[p]]
      /\ sends[rch[p]] = 0

\* C33: a RegisterTask for an id that is already pending replaces the slot of
\* that id, the map keeping its entries otherwise; a delivery for an id whose
\* entry is in the map goes to the slot the map holds for it, the later one,
\* never to the slot that was replaced.
C33_LaterSlotReceives ==
  [][/\ \A c \in Callers :
          RegisterExecuted(c) /\ tid[c] \in DOMAIN activeTasks =>
            /\ DOMAIN activeTasks' = DOMAIN activeTasks
            /\ activeTasks'[tid[c]] = c
            /\ \A t \in DOMAIN activeTasks \ {tid[c]} : activeTasks'[t] = activeTasks[t]
     /\ \A p \in Pollers :
          SendExecuted(p) /\ cur[p] \in DOMAIN activeTasks =>
            activeTasks[cur[p]] = rch[p]]_vars

C35_UnsupportedMethodRejected ==
  method \notin {"GET", "POST", "PUT", "PATCH"} =>
    /\ rpc = "call" => ENABLED ExecUnsupported
    /\ rpc # "call" =>
         /\ rpc = "returned"
         /\ rerr = <<"unsupported HTTP method: ", method>>
    /\ sent = << >>
    /\ activeTasks = << >>
    /\ ~pollingActive
    /\ AlivePollers = {}
    /\ ~panicked

\* ExecuteAsync("DELETE", ...) with an endpoint and a body has returned.
C35_Witness ==
  /\ method = "DELETE"
  /\ endpoint # << >>
  /\ body \in ObjectBodies
  /\ rpc = "returned"
  /\ rerr # << >>

\* The calls ProcessUsers has made so far, and the positions of its logins.
UserLog == pu.log
Logins == {i \in DOMAIN UserLog : UserLog[i].call = "Login"}

\* C36: ProcessUsers handles the users one at a time. Every user found
\* logged in is sent a logout before the first login, and nothing but these
\* logouts precedes it. A login that succeeds is followed at once by the
\* processing of that user and then by the logout of that user, whether the
\* processing fails or not, before the login of another user. A login that
\* fails is followed by no processing and no logout of that user: the next
\* call is the login of another user. Each user is logged in at most once,
\* and once the function has returned every user has been.
C36_OneUserAtATime ==
  pu.pc # "off" =>
    /\ \A i \in Logins :
         /\ \A u \in Usernames :
              pu.result[u] = StatusLoggedIn => \E j \in 1 .. i - 1 : UserLog[j] = Ev("Logout", u)
         /\ \A j \in Logins : UserLog[j].username = UserLog[i].username => j = i
    /\ \A j \in DOMAIN UserLog :
         (\A i \in Logins : j < i) =>
           /\ UserLog[j].call = "Logout"
           /\ pu.result[UserLog[j].username] = StatusLoggedIn
    /\ \A i \in Logins :
         LET u == UserLog[i].username
         IN IF pu.loginOk[u]
              THEN /\ i + 1 <= Len(UserLog) => UserLog[i + 1] = Ev("processFunc", u)
                   /\ i + 2 <= Len(UserLog) => UserLog[i + 2] = Ev("Logout", u)
                   /\ i + 3 <= Len(UserLog) => UserLog[i + 3].call = "Login"
                   /\ i = Len(UserLog) => pu.pc = "process" /\ pu.username = u
                   /\ i + 1 = Len(UserLog) => pu.pc = "logout" /\ pu.username = u
              ELSE /\ i + 1 <= Len(UserLog) => UserLog[i + 1].call = "Login"
                   /\ \A j \in DOMAIN UserLog :
                        UserLog[j].username = u /\ UserLog[j].call # "Login" =>
                          j < i /\ UserLog[j].call = "Logout"
    /\ \A j \in DOMAIN UserLog :
         UserLog[j].call = "processFunc" =>
           j - 1 \in Logins /\ UserLog[j - 1].username = UserLog[j].username
    /\ pu.pc = "returned" =>
         IF pu.getOk
           THEN /\ pu.err = << >>
                /\ \A u \in Usernames : \E i \in Logins : UserLog[i].username = u
                /\ \A i \in Logins : pu.loginOk[UserLog[i].username] => i + 2 <= Len(UserLog)
           ELSE pu.err # << >> /\ UserLog = << >>

\* ProcessUsers has returned: a user who was logged in and whose processing
\* failed has been logged out again after it, and the login of some user
\* failed before another user was logged in.
C36_Witness ==
  /\ pu.pc = "returned"
  /\ \E i \in Logins :
       LET u == UserLog[i].username
       IN /\ pu.result[u] = StatusLoggedIn
          /\ pu.loginOk[u] /\ ~pu.processOk[u]
          /\ UserLog[i + 2] = Ev("Logout", u)
          /\ \E j \in Logins : j < i /\ ~pu.loginOk[UserLog[j].username]

\* The call of ProcessUserData fails.
StageFails(s) == s \in pud.failing

\* C37: ProcessUserData makes its five calls in the order snapshot, exchange
\* trades, online events, EVM transaction fetch, EVM transaction decode; a
\* call that fails is logged and the next call is made all the same; the
\* function goes on until it returns, and it returns nil.
C37_AllStagesAlwaysRun ==
  pud.pc # "off" =>
    /\ Len(pud.log) <= Len(Stages)
    /\ \A i \in DOMAIN pud.log : pud.log[i] = Stages[i]
    /\ pud.pc \in StageNames => pud.pc = Stages[Len(pud.log) + 1]
    /\ pud.logged = SelectSeq(pud.log, StageFails)
    /\ pud.pc \in {"return", "returned"} => pud.log = Stages
    /\ pud.pc # "returned" => ENABLED NextUserData
    /\ pud.err = << >>

\* ProcessUserData has returned nil after all five calls, the first of which
\* failed, as did the last.
C37_Witness ==
  /\ pud.pc = "returned"
  /\ pud.err = << >>
  /\ pud.log = Stages
  /\ Stages[1] \in pud.failing
  /\ Stages[5] \in pud.failing
  /\ Len(pud.logged) >= 2

\* The request carries the force flag.
Forced(e) == \E i \in DOMAIN e : e[i] = "save_data=true"

\* C38: once PerformSnapshotIfNeeded has read the last save and the frequency
\* and has returned, with elapsed = now - lastBalanceSave and interval =
\* balanceSaveFrequency * 3600: it has requested one balance snapshot if
\* elapsed >= interval/2 and none otherwise; the request carries
\* save_data=true exactly when interval/2 <= elapsed < interval and does not
\* carry it when elapsed >= interval.
C38_SnapshotThresholds ==
  snap.pc = "returned" /\ snap.lastOk /\ snap.frequencyOk =>
    LET elapsed == snap.currentTime - snap.lastBalanceSave
        interval == snap.balanceSaveFrequency * 3600
        half == interval \div 2
    IN /\ Len(snap.requests) = (IF elapsed >= half THEN 1 ELSE 0)
       /\ \A i \in DOMAIN snap.requests :
            /\ snap.requests[i][1] = "/balances"
            /\ Forced(snap.requests[i]) <=> (half <= elapsed /\ elapsed < interval)
            /\ ~Forced(snap.requests[i]) <=> elapsed >= interval

\* A forced snapshot requested exactly half an interval after the last save,
\* with a last save that is not the epoch.
C38_Witness ==
  /\ snap.pc = "returned"
  /\ snap.balanceSaveFrequency > 0
  /\ snap.lastBalanceSave > 0
  /\ 2 * (snap.currentTime - snap.lastBalanceSave) = snap.balanceSaveFrequency * 3600
  /\ snap.requests = << <<"/balances", "?", "save_data=true">> >>

====
